---- MODULE Spec2Model ----
(***************************************************************************)
(* The weighted multi-factor scorers of SellBuddy (src/bots/*.py).         *)
(*                                                                         *)
(* Every scorer is a dataclass whose fields are the factor values (all     *)
(* defaulting to 0), with a class-level WEIGHTS table, a `total` property  *)
(* and, for most of them, a grade computed by an if-chain over `total`.    *)
(*                                                                         *)
(* Arithmetic.  The Python code works on floats.  The model is exact       *)
(* fixed point: factor values are integers, weights are in hundredths      *)
(* (0.18 is 18), so a total is in hundredths of a point (85 points is      *)
(* 8500).  Confidence is in tenths of a point (100 is 1000), with the      *)
(* standard deviation truncated to a tenth.                                *)
(***************************************************************************)
EXTENDS Integers, Sequences, FiniteSets, TLC

VARIABLES
    scorer,     \* the scorer class in use
    WEIGHTS,    \* that class's WEIGHTS dict (one object, shared by all instances)
    kwargs,     \* the factor set the current instance was constructed from
    inst,       \* the current instance's fields, or None
    res,        \* what the last read of the instance returned, or None
    calls,      \* reads made of the current instance
    exported,   \* a dict returned by to_dict() is in the caller's hands
    writes,     \* writes the caller has made through that dict
    last,       \* the operation performed last
    \* FraudDetectionEngine (order_handler_bot.py)
    VELOCITY_HISTORY,   \* the class-level dict: key -> list of timestamps
    now,                \* what datetime.now() returns, in ticks
    assessed,           \* every assess_order call made so far: email, ip, time
    assessment,         \* the FraudAssessment being built or returned last
    CUSTOMER_HISTORY,   \* CustomerAnalyticsEngine's cache: the emails it holds
    \* OrderManager.update_status (order_handler_bot.py)
    order,              \* an Order: its status and its status_history
    updates,            \* the update_status calls made on it, in order
    \* EliteOrderProcessor (autonomous_controller.py)
    orders_file,        \* the orders of data/orders.json
    orders,             \* self.orders["orders"]
    results,            \* what the last process_pending call returned
    shipped_here,       \* the orders some process_pending call has shipped
    \* threads reading the properties of scorer instances
    selves,             \* the instance each thread reads
    frames,             \* each thread's frame: position in WEIGHTS, running sum
    returned,           \* what each thread's read returned
    \* AIDecisionEngine.optimize_price (autonomous_controller.py)
    product,            \* the product dict passed
    market,             \* the market dict passed last
    optimized           \* what the last optimize_price call returned

scorerVars == <<scorer, WEIGHTS, kwargs, inst, res, calls, exported, writes, last>>

fraudVars == <<VELOCITY_HISTORY, now, assessed, assessment, CUSTOMER_HISTORY>>

orderVars == <<order, updates>>

processorVars == <<orders_file, orders, results, shipped_here>>

threadVars == <<selves, frames, returned>>

pricingVars == <<product, market, optimized>>

vars == <<scorerVars, fraudVars, orderVars, processorVars, threadVars, pricingVars>>

(***************************************************************************)
(* Bounds of the exploration.                                              *)
(***************************************************************************)
\* uniform base factor values are 0 and 50, 55, 60, ..., 50 + 5 * MaxK
MaxK == 10
\* property reads (total / confidence / grade) per constructed instance
MaxCalls == 2
\* writes a caller makes through the dict returned by to_dict()
MaxWrites == 1

None == "None"

\* a subsystem that a specification does not exercise stays as constructed
NoAssessment == [none |-> TRUE]

FraudIdle ==
    /\ VELOCITY_HISTORY = <<>>
    /\ now = 0
    /\ assessed = <<>>
    /\ assessment = NoAssessment
    /\ CUSTOMER_HISTORY = {}

OrderIdle ==
    /\ order = [none |-> TRUE]
    /\ updates = <<>>

ProcessorIdle ==
    /\ orders_file = <<>>
    /\ orders = <<>>
    /\ results = [none |-> TRUE]
    /\ shipped_here = {}

PricingIdle ==
    /\ product = [none |-> TRUE]
    /\ market = [none |-> TRUE]
    /\ optimized = [none |-> TRUE]

ThreadsIdle ==
    /\ selves = <<>>
    /\ frames = <<>>
    /\ returned = <<>>

\* no instance constructed yet, nothing read yet
NoInstance == [none |-> TRUE]

NoResult == [kind |-> "none"]

NoKwargs == [f \in {} |-> 0]

\* the outcome of reading a property: a value, or the exception raised
Value(v) == [ok |-> TRUE, value |-> v]

Raised(e) == [ok |-> FALSE, raised |-> e]

(***************************************************************************)
(* The scorer classes.  The two classes called ProductScore are kept       *)
(* apart by the module they live in.                                       *)
(***************************************************************************)
Scorers ==
    {"ProductScore", "ControllerProductScore", "InfluencerScore",
     "ViralScore", "ImageQualityScore", "SupplierScore"}

\* the dataclass fields, in declaration order
FieldSeq(c) ==
    CASE c = "ProductScore" ->
           <<"trend_score", "viral_potential", "margin_score",
             "competition_score", "demand_score", "sentiment_score",
             "seasonality_score", "price_point_score", "supplier_score",
             "shipping_score", "return_risk", "repeat_potential">>
      [] c = "ControllerProductScore" ->
           <<"trend_score", "margin_score", "competition_score",
             "viral_potential", "demand_forecast", "sentiment_score",
             "seasonality_score">>
      [] c = "InfluencerScore" ->
           <<"engagement_rate", "authenticity", "niche_relevance",
             "content_quality", "audience_match", "growth_rate">>
      [] c = "ViralScore" ->
           <<"hook_strength", "emotional_trigger", "shareability",
             "platform_fit", "trend_alignment", "cta_effectiveness">>
      [] c = "ImageQualityScore" ->
           <<"resolution_score", "aspect_ratio_score", "brightness_score",
             "color_score", "source_reliability", "relevance_score",
             "style_match">>
      [] c = "SupplierScore" ->
           <<"reliability", "shipping_speed", "quality", "communication",
             "pricing", "return_rate">>

Fields(c) == {FieldSeq(c)[i] : i \in 1..Len(FieldSeq(c))}

\* the WEIGHTS literal of each class, in hundredths
SourceWEIGHTS(c) ==
    CASE c = "ProductScore" ->
           [trend_score |-> 18, viral_potential |-> 16, margin_score |-> 14,
            competition_score |-> 12, demand_score |-> 10,
            sentiment_score |-> 8, seasonality_score |-> 6,
            price_point_score |-> 5, supplier_score |-> 4,
            shipping_score |-> 3, return_risk |-> 2, repeat_potential |-> 2]
      [] c = "ControllerProductScore" ->
           [trend_score |-> 22, margin_score |-> 18, competition_score |-> 12,
            viral_potential |-> 20, demand_forecast |-> 15,
            sentiment_score |-> 8, seasonality_score |-> 5]
      [] c = "InfluencerScore" ->
           [engagement_rate |-> 25, authenticity |-> 20,
            niche_relevance |-> 20, content_quality |-> 15,
            audience_match |-> 12, growth_rate |-> 8]
      [] c = "ViralScore" ->
           [hook_strength |-> 25, emotional_trigger |-> 20,
            shareability |-> 20, platform_fit |-> 15, trend_alignment |-> 12,
            cta_effectiveness |-> 8]
      [] c = "ImageQualityScore" ->
           [resolution_score |-> 20, aspect_ratio_score |-> 15,
            brightness_score |-> 10, color_score |-> 15,
            source_reliability |-> 15, relevance_score |-> 15,
            style_match |-> 10]
      [] c = "SupplierScore" ->
           [reliability |-> 25, shipping_speed |-> 20, quality |-> 20,
            pricing |-> 15, communication |-> 10, return_rate |-> 10]

\* the if-chain of each grade property: <<minimum, label>> in the order the
\* code tests them, minimum in points.  SupplierScore has no grade property;
\* its label is the risk level SupplierManager._calculate_risk derives from
\* the total by the same kind of chain.
GradeChain(c) ==
    CASE c = "ProductScore" ->
           << <<85, "A+">>, <<80, "A">>, <<75, "B+">>, <<70, "B">>,
              <<65, "C+">>, <<60, "C">>, <<50, "D">> >>
      [] c = "ControllerProductScore" ->
           << <<90, "S">>, <<85, "A+">>, <<80, "A">>, <<75, "B+">>,
              <<70, "B">>, <<60, "C">> >>
      [] c = "InfluencerScore" ->
           << <<85, "A">>, <<75, "B">>, <<65, "C">>, <<55, "D">> >>
      [] c = "ImageQualityScore" ->
           << <<90, "A+">>, <<80, "A">>, <<70, "B">>, <<60, "C">> >>
      [] c = "SupplierScore" ->
           << <<85, "LOW">>, <<70, "MEDIUM">>, <<55, "HIGH">> >>
      [] OTHER -> << >>

\* the label returned when every test of the chain fails
GradeElse(c) ==
    CASE c = "ProductScore" -> "F"
      [] c = "ControllerProductScore" -> "D"
      [] c = "InfluencerScore" -> "F"
      [] c = "ImageQualityScore" -> "D"
      [] c = "SupplierScore" -> "CRITICAL"
      [] OTHER -> None

\* ViralScore has no grade of any kind
HasGrade(c) == c # "ViralScore"

\* only product_research_bot.ProductScore has confidence and to_dict
HasConfidence(c) == c = "ProductScore"

(***************************************************************************)
(* Integer helpers.                                                        *)
(***************************************************************************)
Max(a, b) == IF a >= b THEN a ELSE b

Min(a, b) == IF a <= b THEN a ELSE b

RECURSIVE ISqrtIn(_, _, _)
\* the largest k in lo..hi with k * k <= n, given lo * lo <= n
ISqrtIn(n, lo, hi) ==
    IF lo >= hi THEN lo
    ELSE LET mid == (lo + hi + 1) \div 2
         IN  IF mid * mid <= n THEN ISqrtIn(n, mid, hi)
                               ELSE ISqrtIn(n, lo, mid - 1)

\* math.sqrt, truncated to an integer
ISqrt(n) == ISqrtIn(n, 0, 46340)

(***************************************************************************)
(* The dataclass constructor: every field a keyword does not name gets     *)
(* the declared default, 0.                                                *)
(***************************************************************************)
\* a constructor whose fields default to 50
InitFieldsDefault50(c, kw) ==
    [f \in Fields(c) |-> IF f \in DOMAIN kw THEN kw[f] ELSE 50]

\* a constructor that rejects an empty weight table and a negative weight
InitFieldsValidated(c, kw) ==
    IF DOMAIN WEIGHTS = {} \/ \E k \in DOMAIN WEIGHTS : WEIGHTS[k] < 0
    THEN Raised("ConfigurationError")
    ELSE [f \in Fields(c) |-> IF f \in DOMAIN kw THEN kw[f] ELSE 0]

InitFields(c, kw) ==
    [f \in Fields(c) |-> IF f \in DOMAIN kw THEN kw[f] ELSE 0]

(***************************************************************************)
(* total.  Every class sums getattr(self, k) * v over WEIGHTS.items();     *)
(* SupplierScore first replaces return_rate by max(0, 100 - 10 * it).      *)
(***************************************************************************)
\* a SupplierScore that weights return_rate as it is
FactorOfPlain(c, fields, k) == fields[k]

\* a factor clamped to [0, 100] before it is weighted
FactorOfClamped(c, fields, k) ==
    IF c = "SupplierScore" /\ k = "return_rate"
    THEN Max(0, 100 - fields["return_rate"] * 10)
    ELSE Max(0, Min(100, fields[k]))

\* a SupplierScore that forgets the max(0, ...)
FactorOfNoFloor(c, fields, k) ==
    IF c = "SupplierScore" /\ k = "return_rate"
    THEN 100 - fields["return_rate"] * 10
    ELSE fields[k]

FactorOf(c, fields, k) ==
    IF c = "SupplierScore" /\ k = "return_rate"
    THEN Max(0, 100 - fields["return_rate"] * 10)
    ELSE fields[k]

RECURSIVE WeightedSum(_, _, _, _)
WeightedSum(c, fields, w, keys) ==
    IF keys = {} THEN 0
    ELSE LET k == CHOOSE x \in keys : TRUE
         IN  FactorOf(c, fields, k) * w[k]
               + WeightedSum(c, fields, w, keys \ {k})

RECURSIVE SumWeights(_, _)
SumWeights(w, keys) ==
    IF keys = {} THEN 0
    ELSE LET k == CHOOSE x \in keys : TRUE
         IN  w[k] + SumWeights(w, keys \ {k})

\* a total divided by the sum of the weights
TotalRenormalised(c, fields, w) ==
    IF SumWeights(w, DOMAIN w) = 0 THEN 0
    ELSE (WeightedSum(c, fields, w, DOMAIN w) * 100) \div SumWeights(w, DOMAIN w)

\* in hundredths of a point
Total(c, fields, w) == WeightedSum(c, fields, w, DOMAIN w)

(***************************************************************************)
(* grade: the if-chain, tested top to bottom, first success returns.       *)
(***************************************************************************)
RECURSIVE GradeWalkLast(_, _, _)
\* a chain that keeps testing after a success: the last success wins
GradeWalkLast(chain, else, t) ==
    IF chain = << >> THEN else
    ELSE LET rest == GradeWalkLast(Tail(chain), else, t)
         IN  IF rest # else THEN rest
             ELSE IF t >= Head(chain)[1] * 100 THEN Head(chain)[2] ELSE else

RECURSIVE GradeWalkStrict(_, _, _)
\* a chain that tests `>` where the code tests `>=`
GradeWalkStrict(chain, else, t) ==
    IF chain = << >> THEN else
    ELSE IF t > Head(chain)[1] * 100 THEN Head(chain)[2]
         ELSE GradeWalkStrict(Tail(chain), else, t)

RECURSIVE GradeWalk(_, _, _)
GradeWalk(chain, else, t) ==
    IF chain = << >> THEN else
    ELSE IF t >= Head(chain)[1] * 100 THEN Head(chain)[2]
         ELSE GradeWalk(Tail(chain), else, t)

Grade(c, fields, w) == GradeWalk(GradeChain(c), GradeElse(c), Total(c, fields, w))

(***************************************************************************)
(* confidence (product_research_bot.ProductScore only).                    *)
(*   scores   = [getattr(self, f) for f in WEIGHTS.keys()]                 *)
(*   mean     = sum(scores) / len(scores)                                  *)
(*   variance = sum((s - mean) ** 2 for s in scores) / len(scores)         *)
(*   return max(0, min(100, 100 - sqrt(variance)))                         *)
(* With n = len(scores) and S = sum(scores), n * (s - mean) = n * s - S,   *)
(* so variance = SqDev / n^3 with SqDev = sum((n * s - S)^2).              *)
(***************************************************************************)
RECURSIVE SumValues(_, _)
SumValues(fields, keys) ==
    IF keys = {} THEN 0
    ELSE LET k == CHOOSE x \in keys : TRUE
         IN  fields[k] + SumValues(fields, keys \ {k})

RECURSIVE SqDev(_, _, _, _)
SqDev(fields, keys, n, S) ==
    IF keys = {} THEN 0
    ELSE LET k == CHOOSE x \in keys : TRUE
             d == n * fields[k] - S
         IN  d * d + SqDev(fields, keys \ {k}, n, S)

\* sqrt(variance) in tenths, truncated: sqrt(100 * SqDev / n^3); SqDev is a
\* multiple of n, and floor(sqrt(x) / n) = floor(floor(sqrt(x)) / n)
StdDev(fields, keys) ==
    LET n == Cardinality(keys)
        S == SumValues(fields, keys)
    IN  ISqrt(100 * (SqDev(fields, keys, n, S) \div n)) \div n

\* a confidence without the clamp
ConfidenceUnclamped(fields, w) ==
    IF DOMAIN w = {} THEN Raised("ZeroDivisionError")
    ELSE Value(1000 - StdDev(fields, DOMAIN w))

\* a confidence that grows with the spread
ConfidenceOfSpread(fields, w) ==
    IF DOMAIN w = {} THEN Raised("ZeroDivisionError")
    ELSE Value(Max(0, Min(1000, StdDev(fields, DOMAIN w))))

\* in tenths of a point; dividing by len(scores) = 0 raises
Confidence(fields, w) ==
    IF DOMAIN w = {} THEN Raised("ZeroDivisionError")
    ELSE Value(Max(0, Min(1000, 1000 - StdDev(fields, DOMAIN w))))

\* round(self.confidence, 1): sqrt(variance) to the nearest tenth
RoundedConfidence(fields, w) ==
    IF DOMAIN w = {} THEN Raised("ZeroDivisionError")
    ELSE LET keys == DOMAIN w
             n == Cardinality(keys)
             S == SumValues(fields, keys)
             r == (ISqrt(400 * (SqDev(fields, keys, n, S) \div n)) + n) \div (2 * n)
         IN  Value(Max(0, Min(1000, 1000 - r)))

(***************************************************************************)
(* What a caller reads off an instance: the properties the class has.      *)
(***************************************************************************)
Properties(c, fields, w) ==
    [kind       |-> "properties",
     total      |-> Total(c, fields, w),
     confidence |-> IF HasConfidence(c) THEN Confidence(fields, w)
                    ELSE Raised("AttributeError"),
     grade      |-> IF HasGrade(c) THEN Grade(c, fields, w) ELSE None]

\* ProductScore.to_dict(); its 'weights' entry is self.WEIGHTS itself, which
\* `exported` records.  round(x, 1) of an integer factor and round(total, 2)
\* of a total in hundredths change nothing.
ToDictOf(c, fields, w) ==
    IF ~RoundedConfidence(fields, w).ok
    THEN [kind |-> RoundedConfidence(fields, w).raised]
    ELSE [kind        |-> "dict",
          factors     |-> [k \in DOMAIN w |-> fields[k]],
          total_score |-> Total(c, fields, w),
          confidence  |-> RoundedConfidence(fields, w).value,
          grade       |-> Grade(c, fields, w)]

(***************************************************************************)
(* The factor sets explored: every field at a base value b, the first two  *)
(* fields moved apart by d (which keeps the mean), and a set of fields     *)
(* left out of the keywords.                                               *)
(***************************************************************************)
BaseValues == {0} \cup {50 + 5 * k : k \in 0..MaxK}

Spreads == {0, 50, 300}

Omissions(c) ==
    {{}, {FieldSeq(c)[1]}, {FieldSeq(c)[Len(FieldSeq(c))]}, Fields(c)}

FactorSet(c, b, d, om) ==
    [f \in Fields(c) \ om |->
        IF f = FieldSeq(c)[1] THEN b + d
        ELSE IF f = FieldSeq(c)[2] THEN b - d
        ELSE b]

FactorSets(c) ==
    {FactorSet(c, b, d, om) : b \in BaseValues, d \in Spreads, om \in Omissions(c)}

\* the values a caller writes into the returned 'weights' dict, in hundredths
WrittenWeights == {-18, 50}

(***************************************************************************)
(* The state machine.                                                      *)
(***************************************************************************)
Init ==
    /\ scorer \in Scorers
    /\ WEIGHTS = SourceWEIGHTS(scorer)
    /\ kwargs = NoKwargs
    /\ inst = NoInstance
    /\ res = NoResult
    /\ calls = 0
    /\ exported = FALSE
    /\ writes = 0
    /\ last = "init"
    /\ FraudIdle /\ OrderIdle /\ ProcessorIdle /\ ThreadsIdle /\ PricingIdle

\* cls(**kw): the generated __init__ assigns the fields and checks nothing
Construct(kw) ==
    /\ kwargs' = kw
    /\ inst' = InitFields(scorer, kw)
    /\ res' = NoResult
    /\ calls' = 0
    /\ last' = "construct"
    /\ UNCHANGED <<scorer, WEIGHTS, exported, writes>>
    /\ UNCHANGED <<fraudVars, orderVars, processorVars, threadVars, pricingVars>>

\* score.total, score.confidence, score.grade / score._get_grade()
Score ==
    /\ inst # NoInstance
    /\ calls < MaxCalls
    /\ res' = Properties(scorer, inst, WEIGHTS)
    /\ calls' = calls + 1
    /\ last' = "score"
    /\ UNCHANGED <<scorer, WEIGHTS, kwargs, inst, exported, writes>>
    /\ UNCHANGED <<fraudVars, orderVars, processorVars, threadVars, pricingVars>>

\* score.to_dict()
ToDict ==
    /\ scorer = "ProductScore"
    /\ inst # NoInstance
    /\ calls < MaxCalls
    /\ res' = ToDictOf(scorer, inst, WEIGHTS)
    /\ calls' = calls + 1
    /\ exported' = (exported \/ res'.kind = "dict")
    /\ last' = "to_dict"
    /\ UNCHANGED <<scorer, WEIGHTS, kwargs, inst, writes>>
    /\ UNCHANGED <<fraudVars, orderVars, processorVars, threadVars, pricingVars>>

\* the caller of to_dict() does d['weights'][k] = v
WriteWeight(k, v) ==
    /\ exported
    /\ writes < MaxWrites
    /\ WEIGHTS' = [x \in DOMAIN WEIGHTS \cup {k} |-> IF x = k THEN v ELSE WEIGHTS[x]]
    /\ writes' = writes + 1
    /\ last' = "write"
    /\ UNCHANGED <<scorer, kwargs, inst, res, calls, exported>>
    /\ UNCHANGED <<fraudVars, orderVars, processorVars, threadVars, pricingVars>>

\* the caller does del d['weights'][k]
DeleteWeight(k) ==
    /\ exported
    /\ writes < MaxWrites
    /\ k \in DOMAIN WEIGHTS
    /\ WEIGHTS' = [x \in DOMAIN WEIGHTS \ {k} |-> WEIGHTS[x]]
    /\ writes' = writes + 1
    /\ last' = "write"
    /\ UNCHANGED <<scorer, kwargs, inst, res, calls, exported>>
    /\ UNCHANGED <<fraudVars, orderVars, processorVars, threadVars, pricingVars>>

\* the caller does d['weights'].clear()
ClearWeights ==
    /\ exported
    /\ writes < MaxWrites
    /\ WEIGHTS' = [x \in {} |-> 0]
    /\ writes' = writes + 1
    /\ last' = "write"
    /\ UNCHANGED <<scorer, kwargs, inst, res, calls, exported>>
    /\ UNCHANGED <<fraudVars, orderVars, processorVars, threadVars, pricingVars>>

\* the keys a caller writes or deletes
WrittenKeys == {"trend_score"}

Next ==
    \/ \E kw \in FactorSets(scorer) : Construct(kw)
    \/ Score
    \/ ToDict

\* the scorers as the program uses them: nobody writes to a returned dict
Spec == Init /\ [][Next]_vars

NextAlias ==
    \/ Next
    \/ \E k \in WrittenKeys, v \in WrittenWeights : WriteWeight(k, v)
    \/ \E k \in WrittenKeys : DeleteWeight(k)
    \/ ClearWeights

\* the scorers with a caller that writes through the dict to_dict() returned
SpecAlias == Init /\ [][NextAlias]_vars

TypeOK ==
    /\ scorer \in Scorers
    /\ calls \in 0..MaxCalls
    /\ writes \in 0..MaxWrites
    /\ exported \in BOOLEAN
    /\ last \in {"init", "construct", "score", "to_dict", "write"}
    /\ inst # NoInstance => DOMAIN inst = Fields(scorer)
    /\ res.kind \in {"none", "properties", "dict", "ZeroDivisionError"}

(***************************************************************************)
(* The properties.  What they say of a factor set is said of `kwargs`, the *)
(* factor set the caller supplied, not of the instance built from it.      *)
(***************************************************************************)
\* factors.get(name, 0)
Get(factors, name) == IF name \in DOMAIN factors THEN factors[name] ELSE 0

RECURSIVE SigmaGet(_, _, _)
\* the sum over `keys` of factors.get(name, 0) * weight
SigmaGet(factors, w, keys) ==
    IF keys = {} THEN 0
    ELSE LET k == CHOOSE x \in keys : TRUE
         IN  Get(factors, k) * w[k] + SigmaGet(factors, w, keys \ {k})

\* the same sum with SupplierScore's return_rate entry inverted
SigmaSupplier(factors, w) ==
    SigmaGet(factors, w, DOMAIN w \ {"return_rate"})
      + (IF "return_rate" \in DOMAIN w
         THEN Max(0, 100 - 10 * Get(factors, "return_rate")) * w["return_rate"]
         ELSE 0)

\* C1 as stated: for every factor set the composite total is the sum, over
\* every entry of the weight table, of factors.get(name, 0) * weight.
\* SupplierScore breaks it.
C1_TotalIsPlainWeightedSum ==
    last = "score" => res.total = SigmaGet(kwargs, WEIGHTS, DOMAIN WEIGHTS)

\* C1 amended: the composite total is the sum, over exactly the entries of
\* the weight table, of factors.get(name, 0) * weight, never renormalised by
\* the weight sum; except that SupplierScore weights
\* max(0, 100 - 10 * return_rate) in place of return_rate.
C1_TotalIsWeightedSum ==
    last = "score" =>
        res.total = IF scorer = "SupplierScore"
                    THEN SigmaSupplier(kwargs, WEIGHTS)
                    ELSE SigmaGet(kwargs, WEIGHTS, DOMAIN WEIGHTS)

\* a total read under a weight table that no longer sums to 1, of a factor
\* set that leaves a weighted factor out
C1_Witness ==
    /\ last = "score"
    /\ SumWeights(WEIGHTS, DOMAIN WEIGHTS) \notin {0, 100}
    /\ DOMAIN WEIGHTS \ DOMAIN kwargs # {}
    /\ res.total > 0
    /\ res.total # SigmaGet(kwargs, SourceWEIGHTS(scorer), DOMAIN SourceWEIGHTS(scorer))

\* the thresholds of the chain that a total reaches
Reached(chain, t) == {i \in DOMAIN chain : chain[i][1] * 100 <= t}

\* C2: the thresholds are walked from the highest minimum downward and the
\* grade is the label of the first (so the highest) threshold whose minimum
\* is <= the total; a total below every threshold gets the reserved lowest
\* label.
C2_GradeIsHighestReached ==
    (last = "score" /\ HasGrade(scorer)) =>
        LET chain == GradeChain(scorer)
            ok == Reached(chain, res.total)
        IN  /\ \A i, j \in DOMAIN chain : i < j => chain[i][1] > chain[j][1]
            /\ ok = {} => res.grade = GradeElse(scorer)
            /\ ok # {} =>
                 res.grade = chain[CHOOSE i \in ok :
                                     \A j \in ok : chain[j][1] <= chain[i][1]][2]

\* a total that reaches several thresholds but not the highest
C2_Witness ==
    /\ last = "score"
    /\ HasGrade(scorer)
    /\ Cardinality(Reached(GradeChain(scorer), res.total)) > 1
    /\ 1 \notin Reached(GradeChain(scorer), res.total)

\* the example of the spec: weights {trend: 0.5, margin: 0.5}, thresholds
\* [(90, A), (70, B), (0, C)], input {trend: 80, margin: 100}
ExampleGrade ==
    GradeWalk(<< <<90, "A">>, <<70, "B">>, <<0, "C">> >>, None,
              Total("Example", [trend |-> 80, margin |-> 100],
                    [trend |-> 50, margin |-> 50]))

\* C3: a total exactly equal to a threshold's minimum gets that threshold's
\* label, not the one below it; the spec's example grades as A.
C3_BoundaryExact ==
    /\ ExampleGrade = "A"
    /\ (last = "score" /\ HasGrade(scorer)) =>
         \A i \in DOMAIN GradeChain(scorer) :
            res.total = GradeChain(scorer)[i][1] * 100
               => res.grade = GradeChain(scorer)[i][2]

\* a total exactly on a threshold that is not the top one, from factors that
\* are not all equal
C3_Witness ==
    /\ last = "score"
    /\ HasGrade(scorer)
    /\ \E i \in DOMAIN GradeChain(scorer) :
          i > 1 /\ res.total = GradeChain(scorer)[i][1] * 100
    /\ \E f, g \in DOMAIN inst : inst[f] # inst[g]

RECURSIVE SigmaValues(_, _)
\* the sum over `keys` of factors.get(name, 0)
SigmaValues(factors, keys) ==
    IF keys = {} THEN 0
    ELSE LET k == CHOOSE x \in keys : TRUE
         IN  Get(factors, k) + SigmaValues(factors, keys \ {k})

RECURSIVE SigmaSquares(_, _)
SigmaSquares(factors, keys) ==
    IF keys = {} THEN 0
    ELSE LET k == CHOOSE x \in keys : TRUE
         IN  Get(factors, k) * Get(factors, k) + SigmaSquares(factors, keys \ {k})

\* n^2 times the population variance of the factor values: n * sum(s^2) - sum(s)^2
SpreadOf(factors, keys) ==
    Cardinality(keys) * SigmaSquares(factors, keys)
      - SigmaValues(factors, keys) * SigmaValues(factors, keys)

\* the population standard deviation of the factor values in tenths, truncated
PopStdDev(factors, keys) == ISqrt(100 * SpreadOf(factors, keys)) \div Cardinality(keys)

\* C4: confidence is clamp(100 - s, 0, 100), s the population standard
\* deviation of the raw values of all factors of the weight table; so it is
\* within [0, 100] whatever the factor values.
C4_ConfidenceIsClampedSpread ==
    (last = "score" /\ HasConfidence(scorer)) =>
        /\ res.confidence.ok
        /\ res.confidence.value =
              Max(0, Min(1000, 1000 - PopStdDev(kwargs, DOMAIN WEIGHTS)))
        /\ res.confidence.value \in 0..1000

\* factor values far outside [0, 100] whose spread exceeds 100: the clamp acts
C4_Witness ==
    /\ last = "score"
    /\ HasConfidence(scorer)
    /\ \E f \in DOMAIN kwargs : kwargs[f] > 100
    /\ \E f \in DOMAIN kwargs : kwargs[f] < 0
    /\ PopStdDev(kwargs, DOMAIN WEIGHTS) > 1000
    /\ res.confidence.value = 0

\* the factor set with one more name, supplied as 0
WithZero(factors, name) ==
    [k \in DOMAIN factors \cup {name} |-> IF k = name THEN 0 ELSE factors[k]]

\* C5: for every weight-table name missing from the factor set F, score(F)
\* and score(F with that name set to 0) agree on total, confidence and grade.
C5_MissingIsZero ==
    last = "score" =>
        \A name \in DOMAIN WEIGHTS \ DOMAIN kwargs :
            res = Properties(scorer, InitFields(scorer, WithZero(kwargs, name)), WEIGHTS)

\* a scored factor set that names some weighted factors and misses another
C5_Witness ==
    /\ last = "score"
    /\ DOMAIN WEIGHTS \ DOMAIN kwargs # {}
    /\ \E f \in DOMAIN kwargs : kwargs[f] # 0
    /\ res.total > 0

\* every factor of the scorer at value v
AllAt(v) == \A f \in Fields(scorer) : f \in DOMAIN kwargs /\ kwargs[f] = v

\* C6 as stated: all factors at 0 give total 0 and the lowest label, for
\* every scorer.  SupplierScore breaks it.
C6_ZeroFloorEveryScorer ==
    (last = "score" /\ AllAt(0)) =>
        /\ res.total = 0
        /\ HasGrade(scorer) => res.grade = GradeElse(scorer)

\* C6 amended: all factors at 0 give total 0 and the lowest label for
\* ProductScore (both), InfluencerScore and ImageQualityScore, and total 0
\* for ViralScore, which has no grade; SupplierScore gives total 10, its
\* return_rate of 0 counting as 100, and the lowest risk label.
C6_ZeroFloor ==
    (last = "score" /\ AllAt(0)) =>
        /\ res.total = IF scorer = "SupplierScore" THEN 1000 ELSE 0
        /\ HasGrade(scorer) => res.grade = GradeElse(scorer)

\* a SupplierScore with every factor at 0 has been scored
C6_Witness ==
    /\ last = "score"
    /\ AllAt(0)
    /\ scorer = "SupplierScore"
    /\ res.total = 1000

\* C7 as stated: all factors at 100 under weights summing to 1.0 give total
\* 100 and the highest label, for every scorer.  SupplierScore breaks it.
C7_MaxCeilingEveryScorer ==
    (last = "score" /\ AllAt(100) /\ SumWeights(WEIGHTS, DOMAIN WEIGHTS) = 100) =>
        /\ res.total = 10000
        /\ HasGrade(scorer) => res.grade = GradeChain(scorer)[1][2]

\* C7 amended: all factors at 100 under weights summing to 1.0 give total
\* 100 and the highest label for ProductScore (both), InfluencerScore and
\* ImageQualityScore, and total 100 for ViralScore, which has no grade;
\* SupplierScore gives total 90, its return_rate of 100 counting as 0, and
\* the highest risk label.
C7_MaxCeiling ==
    (last = "score" /\ AllAt(100) /\ SumWeights(WEIGHTS, DOMAIN WEIGHTS) = 100) =>
        /\ res.total = IF scorer = "SupplierScore" THEN 9000 ELSE 10000
        /\ HasGrade(scorer) => res.grade = GradeChain(scorer)[1][2]

\* a SupplierScore with every factor at 100 has been scored
C7_Witness ==
    /\ last = "score"
    /\ AllAt(100)
    /\ SumWeights(WEIGHTS, DOMAIN WEIGHTS) = 100
    /\ scorer = "SupplierScore"
    /\ res.total = 9000

\* C9: for two factor sets A and B with identical mean and
\* stddev(A) < stddev(B), confidence(A) >= confidence(B).  A is the factor
\* set scored last, B ranges over the factor sets of the scorer.
C9_ConfidenceMonotone ==
    (last = "score" /\ HasConfidence(scorer)) =>
        \A B \in FactorSets(scorer) :
            LET keys == DOMAIN WEIGHTS
                confB == Properties(scorer, InitFields(scorer, B), WEIGHTS).confidence
            IN  SigmaValues(kwargs, keys) = SigmaValues(B, keys) =>
                  /\ SpreadOf(kwargs, keys) < SpreadOf(B, keys)
                       => res.confidence.value >= confB.value
                  /\ SpreadOf(B, keys) < SpreadOf(kwargs, keys)
                       => confB.value >= res.confidence.value

\* a scored factor set for which another of the same mean and a larger
\* spread has a strictly lower confidence
C9_Witness ==
    /\ last = "score"
    /\ HasConfidence(scorer)
    /\ \E B \in FactorSets(scorer) :
          /\ SigmaValues(kwargs, DOMAIN WEIGHTS) = SigmaValues(B, DOMAIN WEIGHTS)
          /\ SpreadOf(kwargs, DOMAIN WEIGHTS) < SpreadOf(B, DOMAIN WEIGHTS)
          /\ SpreadOf(kwargs, DOMAIN WEIGHTS) > 0
          /\ res.confidence.value >
                Properties(scorer, InitFields(scorer, B), WEIGHTS).confidence.value

\* a weight table that is empty or holds a negative weight
InvalidWeights(w) == DOMAIN w = {} \/ \E k \in DOMAIN w : w[k] < 0

Failed(r) ==
    \/ r.kind \notin {"properties", "dict"}
    \/ r.kind = "properties" /\ HasConfidence(scorer) /\ ~r.confidence.ok

\* C11 as stated: under a valid weight table score() never fails, and every
\* factor value, missing ones as 0 and out-of-range ones as given, is
\* multiplied by its weight unclamped.  SupplierScore's return_rate is not.
C11_NeverFailsNeverClamps ==
    (last = "score" /\ ~InvalidWeights(WEIGHTS)) =>
        /\ ~Failed(res)
        /\ res.total = SigmaGet(kwargs, WEIGHTS, DOMAIN WEIGHTS)

\* C11 amended: under a valid weight table score() never fails for any
\* factor set; missing factors count as 0 and out-of-range values are
\* multiplied as given, unclamped, except SupplierScore's return_rate, which
\* enters the total as max(0, 100 - 10 * return_rate).
C11_NeverFails ==
    (last \in {"score", "to_dict"} /\ ~InvalidWeights(WEIGHTS)) =>
        /\ ~Failed(res)
        /\ (last = "score" /\ scorer # "SupplierScore") =>
             res.total = SigmaGet(kwargs, WEIGHTS, DOMAIN WEIGHTS)
        /\ (last = "score" /\ scorer = "SupplierScore") =>
             res.total = SigmaSupplier(kwargs, WEIGHTS)

\* a total above 100 points read off factors above 100 and below 0, one
\* weighted factor missing
C11_Witness ==
    /\ last = "score"
    /\ ~InvalidWeights(WEIGHTS)
    /\ \E f \in DOMAIN kwargs : kwargs[f] > 100
    /\ \E f \in DOMAIN kwargs : kwargs[f] < 0
    /\ DOMAIN WEIGHTS \ DOMAIN kwargs # {}
    /\ res.total > 10000

\* C12 as stated: score() leaves the weight table unchanged and its result
\* shares no mutable state with the configuration, so nothing done to a
\* returned result changes a later score.  to_dict() returns WEIGHTS itself.
C12_ResultSharesNothing ==
    /\ WEIGHTS = SourceWEIGHTS(scorer)
    /\ last = "score" =>
         res = Properties(scorer, InitFields(scorer, kwargs), SourceWEIGHTS(scorer))

(***************************************************************************)
(* The fraud detection engine (src/bots/order_handler_bot.py).             *)
(*                                                                         *)
(* A signal's score is an integer 0..100 and its weight is in hundredths   *)
(* (0.20 is 20), so total_score is in hundredths of a point (85 points is  *)
(* 8500).  What the code finds in a string (a disposable domain, a PO box, *)
(* the customer's name inside the email) is a field of the input saying    *)
(* whether it is there.  An IP address is the tuple of its octets.         *)
(***************************************************************************)
FRAUD_HIGH_RISK_THRESHOLD == 70

FRAUD_MEDIUM_RISK_THRESHOLD == 40

AUTO_APPROVE_THRESHOLD == 20

MAX_ORDERS_PER_HOUR_PER_IP == 3

MAX_ORDERS_PER_DAY_PER_EMAIL == 5

HIGH_RISK_COUNTRIES == {"NG", "GH", "PH"}

RiskLevel == {"LOW", "MEDIUM", "HIGH", "CRITICAL"}

\* timedelta(hours=1) and timedelta(days=1), in ticks of half an hour
Hour == 2

Day == 24 * Hour

FraudSignal(name, score, weight) == [name |-> name, score |-> score, weight |-> weight]

weighted_score(signal) == signal.score * signal.weight

\* sum(s.weighted_score for s in self.signals)
RECURSIVE SumWeighted(_)
SumWeighted(signals) ==
    IF signals = <<>> THEN 0
    ELSE weighted_score(Head(signals)) + SumWeighted(Tail(signals))

\* FraudAssessment(order_id=...): the dataclass defaults
FraudAssessment ==
    [total_score |-> 0, risk_level |-> "LOW", signals |-> <<>>,
     auto_approve |-> FALSE, requires_review |-> FALSE, velocity_risk |-> 0]

\* the comparisons of _update_risk_level made strict
update_risk_level_strict(a) ==
    IF a.total_score > FRAUD_HIGH_RISK_THRESHOLD * 100
    THEN [a EXCEPT !.risk_level = IF a.total_score > 85 * 100 THEN "CRITICAL" ELSE "HIGH",
                   !.requires_review = TRUE]
    ELSE IF a.total_score > FRAUD_MEDIUM_RISK_THRESHOLD * 100
    THEN [a EXCEPT !.risk_level = "MEDIUM", !.requires_review = TRUE]
    ELSE [a EXCEPT !.risk_level = "LOW",
                   !.auto_approve = (a.total_score <= AUTO_APPROVE_THRESHOLD * 100)]

\* FraudAssessment._update_risk_level: only the branch taken assigns, so
\* auto_approve and requires_review keep what an earlier call gave them
update_risk_level(a) ==
    IF a.total_score >= FRAUD_HIGH_RISK_THRESHOLD * 100
    THEN [a EXCEPT !.risk_level = IF a.total_score >= 85 * 100 THEN "CRITICAL" ELSE "HIGH",
                   !.requires_review = TRUE]
    ELSE IF a.total_score >= FRAUD_MEDIUM_RISK_THRESHOLD * 100
    THEN [a EXCEPT !.risk_level = "MEDIUM", !.requires_review = TRUE]
    ELSE [a EXCEPT !.risk_level = "LOW",
                   !.auto_approve = (a.total_score <= AUTO_APPROVE_THRESHOLD * 100)]

\* FraudAssessment.add_signal
add_signal(a, signal) ==
    LET signals == Append(a.signals, signal)
    IN  update_risk_level([a EXCEPT !.signals = signals,
                                    !.total_score = SumWeighted(signals)])

NoEmail ==
    [addr |-> "", disposable |-> FALSE, autogenerated |-> FALSE, low_entropy |-> FALSE]

\* ip_address=None, or the empty string
NoIp == <<>>

assess_email_risk(a, email) ==
    LET score == IF email.addr = "" THEN 100
                 ELSE (IF email.disposable THEN 80 ELSE 0)
                    + (IF email.autogenerated THEN 30 ELSE 0)
                    + (IF email.low_entropy THEN 20 ELSE 0)
    IN  add_signal(a, FraudSignal("email_risk", Min(score, 100), 20))

\* the fields of `required` that address.get() finds empty
MissingFields(address) == {f \in {"line1", "city", "state", "zip"} : ~address[f]}

assess_address_risk(a, address) ==
    LET score == (IF address.line1 /\ address.po_box THEN 20 ELSE 0)
               + (IF address.line1 /\ address.freight THEN 50 ELSE 0)
               + (IF address.country \in HIGH_RISK_COUNTRIES THEN 40 ELSE 0)
               + Cardinality(MissingFields(address)) * 15
    IN  add_signal(a, FraudSignal("address_risk", Min(score, 100), 15))

\* the order's total is in cents
assess_amount_risk(a, total) ==
    LET score == (IF total > 200 * 100 THEN 30 ELSE 0)
               + (IF total > 500 * 100 THEN 40 ELSE 0)
               + (IF total < 5 * 100 THEN 25 ELSE 0)
    IN  add_signal(a, FraudSignal("amount_risk", Min(score, 100), 15))

\* VELOCITY_HISTORY is a defaultdict(list): a key never written reads as []
HistoryOf(history, key) == IF key \in DOMAIN history THEN history[key] ELSE <<>>

Store(history, key, list) ==
    [k \in DOMAIN history \cup {key} |-> IF k = key THEN list ELSE history[k]]

\* [t for t in list if t > cutoff]
Since(list, cutoff) ==
    LET Later(t) == t > cutoff
    IN  SelectSeq(list, Later)

\* _assess_velocity_risk without the two appends
assess_velocity_risk_unrecorded(VH, a, email, ip, t) ==
    LET today == Since(HistoryOf(VH.email, email.addr), t - Day)
        this_hour == Since(HistoryOf(VH.ip, ip), t - Hour)
        score == (IF Len(today) >= MAX_ORDERS_PER_DAY_PER_EMAIL THEN 60 ELSE 0)
               + (IF ip # NoIp /\ Len(this_hour) >= MAX_ORDERS_PER_HOUR_PER_IP THEN 70 ELSE 0)
    IN  [VELOCITY_HISTORY |-> VH,
         assessment |-> add_signal([a EXCEPT !.velocity_risk = Min(score, 100)],
                                   FraudSignal("velocity_risk", Min(score, 100), 20))]

\* _assess_velocity_risk with the current order counted in
assess_velocity_risk_counting_itself(VH, a, email, ip, t) ==
    LET today == Append(Since(HistoryOf(VH.email, email.addr), t - Day), t)
        this_hour == Append(Since(HistoryOf(VH.ip, ip), t - Hour), t)
        score == (IF Len(today) >= MAX_ORDERS_PER_DAY_PER_EMAIL THEN 60 ELSE 0)
               + (IF ip # NoIp /\ Len(this_hour) >= MAX_ORDERS_PER_HOUR_PER_IP THEN 70 ELSE 0)
        withIp == IF ip # NoIp THEN [VH EXCEPT !.ip = Store(@, ip, this_hour)] ELSE VH
    IN  [VELOCITY_HISTORY |-> [withIp EXCEPT !.email = Store(@, email.addr, today)],
         assessment |-> add_signal([a EXCEPT !.velocity_risk = Min(score, 100)],
                                   FraudSignal("velocity_risk", Min(score, 100), 20))]

\* _assess_velocity_risk without the cap on its score
assess_velocity_risk_uncapped(VH, a, email, ip, t) ==
    LET today == Since(HistoryOf(VH.email, email.addr), t - Day)
        this_hour == Since(HistoryOf(VH.ip, ip), t - Hour)
        score == (IF Len(today) >= MAX_ORDERS_PER_DAY_PER_EMAIL THEN 60 ELSE 0)
               + (IF ip # NoIp /\ Len(this_hour) >= MAX_ORDERS_PER_HOUR_PER_IP THEN 70 ELSE 0)
        withIp == IF ip # NoIp THEN [VH EXCEPT !.ip = Store(@, ip, Append(this_hour, t))]
                  ELSE VH
    IN  [VELOCITY_HISTORY |-> [withIp EXCEPT !.email = Store(@, email.addr, Append(today, t))],
         assessment |-> add_signal([a EXCEPT !.velocity_risk = score],
                                   FraudSignal("velocity_risk", score, 20))]

\* FraudDetectionEngine._assess_velocity_risk at time t: the class-level
\* history after the call, and the assessment with the velocity signal added
assess_velocity_risk(VH, a, email, ip, t) ==
    LET today == Since(HistoryOf(VH.email, email.addr), t - Day)
        this_hour == Since(HistoryOf(VH.ip, ip), t - Hour)
        score == (IF Len(today) >= MAX_ORDERS_PER_DAY_PER_EMAIL THEN 60 ELSE 0)
               + (IF ip # NoIp /\ Len(this_hour) >= MAX_ORDERS_PER_HOUR_PER_IP THEN 70 ELSE 0)
        withIp == IF ip # NoIp THEN [VH EXCEPT !.ip = Store(@, ip, Append(this_hour, t))]
                  ELSE VH
    IN  [VELOCITY_HISTORY |-> [withIp EXCEPT !.email = Store(@, email.addr, Append(today, t))],
         assessment |-> add_signal([a EXCEPT !.velocity_risk = Min(score, 100)],
                                   FraudSignal("velocity_risk", Min(score, 100), 20))]

\* the items of the order with quantity > 3
HighQuantity(items) == {i \in DOMAIN items : items[i] > 3}

assess_behavioral_risk(a, o) ==
    LET score == (IF Len(o.items) > 5 THEN 20 ELSE 0)
               + 25 * Cardinality(HighQuantity(o.items))
    IN  add_signal(a, FraudSignal("behavioral_risk", Min(score, 100), 15))

\* ip.startswith('10.') or ip.startswith('192.168.')
PrivateRange(ip) == ip[1] = 10 \/ (ip[1] = 192 /\ ip[2] = 168)

assess_device_risk(a, ip) ==
    LET score == IF ip # NoIp /\ PrivateRange(ip) THEN 10 ELSE 0
    IN  add_signal(a, FraudSignal("device_risk", Min(score, 100), 5))

\* the name is given, and none of its parts is found in the email's local part
assess_identity_consistency(a, o) ==
    LET name_in_email == o.customer.email.addr # "" /\ o.customer.name.in_email
        score == IF o.customer.name.given /\ ~name_in_email THEN 15 ELSE 0
    IN  add_signal(a, FraudSignal("identity_consistency", Min(score, 100), 10))

\* FraudDetectionEngine.assess_order(order, ip_address) called at time t
assess_order(VH, o, ip_address, t) ==
    LET email == o.customer.email
        a1 == assess_email_risk(FraudAssessment, email)
        a2 == assess_address_risk(a1, o.customer.address)
        a3 == assess_amount_risk(a2, o.total)
        v4 == assess_velocity_risk(VH, a3, email, ip_address, t)
        a5 == assess_behavioral_risk(v4.assessment, o)
        a6 == assess_device_risk(a5, ip_address)
        a7 == assess_identity_consistency(a6, o)
    IN  [VELOCITY_HISTORY |-> v4.VELOCITY_HISTORY, assessment |-> a7]

(***************************************************************************)
(* Bounds and inputs of the fraud engine's exploration.                    *)
(***************************************************************************)
\* add_signal calls made on one FraudAssessment
MaxSignals == 3
\* assess_order calls made on the engine
MaxAssess == 6

SignalScores == {-100, 50, 100}

SignalWeights == {20, 30, 35}

Signals == {FraudSignal("signal", sc, w) : sc \in SignalScores, w \in SignalWeights}

\* the times of day at which the engine is called
Times == {0, Hour - 1, Hour, Day}

PrivateIp == <<10, 0, 0, 5>>

PublicIp == <<8, 8, 8, 8>>

John == [addr |-> "john@example.com", disposable |-> FALSE,
         autogenerated |-> FALSE, low_entropy |-> FALSE]

\* an order nothing is wrong with
CleanOrder ==
    [order_id |-> "SB-1",
     customer |-> [name |-> [given |-> TRUE, in_email |-> TRUE],
                   email |-> John,
                   address |-> [line1 |-> TRUE, po_box |-> FALSE, freight |-> FALSE,
                                city |-> TRUE, state |-> TRUE, zip |-> TRUE,
                                country |-> "US"]],
     items |-> <<1>>,
     total |-> 10000]

\* an order with no email, no address but a high-risk country, four items
\* in quantity, for 600 dollars (amounts of money are in cents)
RiskyOrder ==
    [order_id |-> "SB-2",
     customer |-> [name |-> [given |-> TRUE, in_email |-> FALSE],
                   email |-> NoEmail,
                   address |-> [line1 |-> FALSE, po_box |-> FALSE, freight |-> FALSE,
                                city |-> FALSE, state |-> FALSE, zip |-> FALSE,
                                country |-> "NG"]],
     items |-> <<4, 4, 4, 4>>,
     total |-> 60000]

\* an order with no email and nothing else wrong with it
AnonymousOrder ==
    [order_id |-> "SB-3",
     customer |-> [name |-> [given |-> TRUE, in_email |-> FALSE],
                   email |-> NoEmail,
                   address |-> [line1 |-> TRUE, po_box |-> FALSE, freight |-> FALSE,
                                city |-> TRUE, state |-> TRUE, zip |-> TRUE,
                                country |-> "US"]],
     items |-> <<1>>,
     total |-> 10000]

\* the calls explored: an order and the ip_address passed with it
Requests ==
    { [order |-> CleanOrder, ip |-> PrivateIp],
      [order |-> RiskyOrder, ip |-> NoIp],
      [order |-> AnonymousOrder, ip |-> PrivateIp] }

\* every order, as far as the engine can tell orders apart
AllOrders ==
    { [order_id |-> "SB-0",
       customer |-> [name |-> n, email |-> e, address |-> ad],
       items |-> it,
       total |-> tot] :
        n \in {[given |-> FALSE, in_email |-> FALSE], [given |-> TRUE, in_email |-> FALSE],
               [given |-> TRUE, in_email |-> TRUE]},
        e \in {NoEmail} \cup [addr : {"john@example.com"}, disposable : BOOLEAN,
                              autogenerated : BOOLEAN, low_entropy : BOOLEAN],
        ad \in {x \in [line1 : BOOLEAN, po_box : BOOLEAN, freight : BOOLEAN,
                       city : BOOLEAN, state : BOOLEAN, zip : BOOLEAN,
                       country : {"US", "NG"}] : x.line1 \/ (~x.po_box /\ ~x.freight)},
        it \in {<<>>, <<1>>, <<4, 4, 4, 4>>, <<1, 1, 1, 1, 1, 1>>, <<4, 4, 4, 4, 4, 4>>},
        tot \in {300, 10000, 25000, 60000} }

AllIps == {NoIp, PrivateIp, PublicIp}

(***************************************************************************)
(* A FraudAssessment that is handed signals one by one.                    *)
(***************************************************************************)
InitSignals ==
    /\ scorer = "ProductScore"
    /\ WEIGHTS = SourceWEIGHTS(scorer)
    /\ kwargs = NoKwargs
    /\ inst = NoInstance
    /\ res = NoResult
    /\ calls = 0
    /\ exported = FALSE
    /\ writes = 0
    /\ last = "init"
    /\ VELOCITY_HISTORY = <<>>
    /\ now = 0
    /\ assessed = <<>>
    /\ assessment = FraudAssessment
    /\ CUSTOMER_HISTORY = {}
    /\ OrderIdle /\ ProcessorIdle /\ ThreadsIdle /\ PricingIdle

\* assessment.add_signal(signal)
AddSignal(signal) ==
    /\ Len(assessment.signals) < MaxSignals
    /\ assessment' = add_signal(assessment, signal)
    /\ UNCHANGED <<VELOCITY_HISTORY, now, assessed, CUSTOMER_HISTORY>>
    /\ UNCHANGED <<scorerVars, orderVars, processorVars, threadVars, pricingVars>>

NextSignals == \E signal \in Signals : AddSignal(signal)

SpecSignals == InitSignals /\ [][NextSignals]_vars

(***************************************************************************)
(* The engine, called order after order as the clock advances.             *)
(***************************************************************************)
InitFraud ==
    /\ scorer = "ProductScore"
    /\ WEIGHTS = SourceWEIGHTS(scorer)
    /\ kwargs = NoKwargs
    /\ inst = NoInstance
    /\ res = NoResult
    /\ calls = 0
    /\ exported = FALSE
    /\ writes = 0
    /\ last = "init"
    /\ VELOCITY_HISTORY = [email |-> <<>>, ip |-> <<>>]
    /\ now = 0
    /\ assessed = <<>>
    /\ assessment = NoAssessment
    /\ CUSTOMER_HISTORY = {}
    /\ OrderIdle /\ ProcessorIdle /\ ThreadsIdle /\ PricingIdle

\* what `assessed` keeps of a call and of the assessment it returned
Call(o, ip, t, a) ==
    [order |-> o.order_id, email |-> o.customer.email.addr, ip |-> ip, at |-> t,
     total_score |-> a.total_score, risk_level |-> a.risk_level,
     velocity_risk |-> a.velocity_risk]

\* FraudDetectionEngine.assess_order(o, ip)
AssessOrder(o, ip) ==
    /\ Len(assessed) < MaxAssess
    /\ LET r == assess_order(VELOCITY_HISTORY, o, ip, now)
       IN  /\ VELOCITY_HISTORY' = r.VELOCITY_HISTORY
           /\ assessment' = r.assessment
           /\ assessed' = Append(assessed, Call(o, ip, now, r.assessment))
    /\ UNCHANGED <<now, CUSTOMER_HISTORY>>
    /\ UNCHANGED <<scorerVars, orderVars, processorVars, threadVars, pricingVars>>

\* time passes between two calls
Tick(t) ==
    /\ t > now
    /\ now' = t
    /\ UNCHANGED <<VELOCITY_HISTORY, assessed, assessment, CUSTOMER_HISTORY>>
    /\ UNCHANGED <<scorerVars, orderVars, processorVars, threadVars, pricingVars>>

NextFraud ==
    \/ \E r \in Requests : AssessOrder(r.order, r.ip)
    \/ \E t \in Times : Tick(t)

SpecFraud == InitFraud /\ [][NextFraud]_vars

(***************************************************************************)
(* The properties of the fraud engine.                                     *)
(***************************************************************************)
\* two calls with the same order and the same ip_address
SameRequest(c, d) == c.order = d.order /\ c.ip = d.ip

\* C13 as stated: assess_order leaves the engine's state as it found it, and
\* two assessments of the same order from the same IP get the same
\* total_score and the same risk_level, whatever was assessed in between.
\* It does not hold: every call is recorded in VELOCITY_HISTORY.
C13_AssessmentHasNoSideEffect ==
    /\ VELOCITY_HISTORY = [email |-> <<>>, ip |-> <<>>]
    /\ \A i, j \in DOMAIN assessed :
         SameRequest(assessed[i], assessed[j]) =>
            /\ assessed[i].total_score = assessed[j].total_score
            /\ assessed[i].risk_level = assessed[j].risk_level

\* C13 amended: assess_order records the time of the call in
\* VELOCITY_HISTORY, under the order's email and, when an IP is passed, under
\* that IP.  Two assessments of the same order from the same IP differ by the
\* velocity signal only: total_score less 0.20 * velocity_risk is the same in
\* both, and so are total_score and risk_level when velocity_risk is.
C13_OnlyVelocityIsRemembered ==
    /\ \A i, j \in DOMAIN assessed :
         SameRequest(assessed[i], assessed[j]) =>
            /\ assessed[i].total_score - 20 * assessed[i].velocity_risk
                 = assessed[j].total_score - 20 * assessed[j].velocity_risk
            /\ assessed[i].velocity_risk = assessed[j].velocity_risk =>
                 assessed[i].risk_level = assessed[j].risk_level
    /\ assessed # <<>> =>
         LET c == assessed[Len(assessed)]
         IN  /\ c.email \in DOMAIN VELOCITY_HISTORY.email
             /\ VELOCITY_HISTORY.email[c.email] # <<>>
             /\ VELOCITY_HISTORY.email[c.email][Len(VELOCITY_HISTORY.email[c.email])] = c.at
             /\ c.ip # NoIp =>
                  /\ c.ip \in DOMAIN VELOCITY_HISTORY.ip
                  /\ VELOCITY_HISTORY.ip[c.ip] # <<>>
                  /\ VELOCITY_HISTORY.ip[c.ip][Len(VELOCITY_HISTORY.ip[c.ip])] = c.at

\* the same order from the same IP, assessed twice with different outcomes
C13_Witness ==
    \E i, j \in DOMAIN assessed :
        /\ i < j
        /\ SameRequest(assessed[i], assessed[j])
        /\ assessed[i].risk_level = "MEDIUM"
        /\ assessed[j].risk_level = "HIGH"

(***************************************************************************)
(* Threads reading `total`, `confidence` and the grade of scorer instances *)
(* of one class at the same time.  A read is a generator expression inside *)
(* sum(): its position in WEIGHTS.items() and its running sum live in the  *)
(* frame of the thread that runs it, and a thread can be preempted between *)
(* any two items.                                                          *)
(***************************************************************************)
Threads == {"t1", "t2"}

\* the factor sets the threads' instances are constructed from
ThreadFactorSets(c) == {FactorSet(c, 50, 0, {}), FactorSet(c, 80, 50, {FieldSeq(c)[1]})}

\* WEIGHTS.items(), in the order the fields are declared
Items(c, w) ==
    LET Weighted(k) == k \in DOMAIN w
    IN  SelectSeq(FieldSeq(c), Weighted)

NotCalled == [kind |-> "none"]

Running == [kind |-> "running"]

\* one frame for all the threads
FrameOfShared(t) == "t1"

\* the frame a thread's read runs in: its own
FrameOf(t) == t

InitThreads ==
    /\ scorer \in Scorers
    /\ WEIGHTS = SourceWEIGHTS(scorer)
    /\ kwargs = NoKwargs
    /\ inst = NoInstance
    /\ res = NoResult
    /\ calls = 0
    /\ exported = FALSE
    /\ writes = 0
    /\ last = "init"
    /\ FraudIdle /\ OrderIdle /\ ProcessorIdle /\ PricingIdle
    /\ selves \in [Threads -> {InitFields(scorer, kw) : kw \in ThreadFactorSets(scorer)}]
    /\ frames = [t \in Threads |-> [pos |-> 0, acc |-> 0]]
    /\ returned = [t \in Threads |-> NotCalled]

\* thread t starts reading the properties of its instance
CallScore(t) ==
    /\ returned[t] = NotCalled
    /\ returned' = [returned EXCEPT ![t] = Running]
    /\ frames' = [frames EXCEPT ![FrameOf(t)] = [pos |-> 0, acc |-> 0]]
    /\ UNCHANGED selves
    /\ UNCHANGED <<scorerVars, fraudVars, orderVars, processorVars, pricingVars>>

\* the generator yields the next getattr(self, k) * v and sum() adds it
StepScore(t) ==
    /\ returned[t] = Running
    /\ frames[FrameOf(t)].pos < Len(Items(scorer, WEIGHTS))
    /\ LET k == Items(scorer, WEIGHTS)[frames[FrameOf(t)].pos + 1]
       IN  frames' = [frames EXCEPT ![FrameOf(t)] =
                        [pos |-> @.pos + 1,
                         acc |-> @.acc + FactorOf(scorer, selves[t], k) * WEIGHTS[k]]]
    /\ UNCHANGED <<selves, returned>>
    /\ UNCHANGED <<scorerVars, fraudVars, orderVars, processorVars, pricingVars>>

\* the generator is exhausted: the read returns
ReturnScore(t) ==
    /\ returned[t] = Running
    /\ frames[FrameOf(t)].pos = Len(Items(scorer, WEIGHTS))
    /\ returned' = [returned EXCEPT ![t] =
                      [kind       |-> "properties",
                       total      |-> frames[FrameOf(t)].acc,
                       confidence |-> IF HasConfidence(scorer)
                                      THEN Confidence(selves[t], WEIGHTS)
                                      ELSE Raised("AttributeError"),
                       grade      |-> IF HasGrade(scorer)
                                      THEN GradeWalk(GradeChain(scorer), GradeElse(scorer),
                                                     frames[FrameOf(t)].acc)
                                      ELSE None]]
    /\ UNCHANGED <<selves, frames>>
    /\ UNCHANGED <<scorerVars, fraudVars, orderVars, processorVars, pricingVars>>

NextThreads ==
    \E t \in Threads : CallScore(t) \/ StepScore(t) \/ ReturnScore(t)

SpecThreads == InitThreads /\ [][NextThreads]_vars

\* C14: whatever the interleaving of the threads' reads, each read returns
\* what a read of the same instance returns when it runs alone.
C14_ConcurrentReadsAgree ==
    \A t \in Threads :
        returned[t].kind = "properties" =>
            returned[t] = Properties(scorer, selves[t], SourceWEIGHTS(scorer))

\* both threads were in the middle of their reads at once, on instances that
\* score differently, and one has returned
C14_Witness ==
    /\ selves["t1"] # selves["t2"]
    /\ returned["t1"].kind = "properties"
    /\ returned["t2"] = Running
    /\ frames["t2"].pos > 0
    /\ frames["t2"].pos < Len(Items(scorer, WEIGHTS))
    /\ returned["t1"].total # Total(scorer, selves["t2"], WEIGHTS)

\* the sum of score * weight over the first n signals
RECURSIVE SigmaSignals(_, _)
SigmaSignals(signals, n) ==
    IF n = 0 THEN 0
    ELSE SigmaSignals(signals, n - 1) + signals[n].score * signals[n].weight

\* C15: after any sequence of add_signal calls total_score is the sum of
\* score * weight over the signals added, risk_level is CRITICAL from 85,
\* HIGH from 70, MEDIUM from 40 and LOW below, and requires_review is true
\* whenever risk_level is not LOW.
C15_TotalAndLevelFollowSignals ==
    LET a == assessment
        sigma == SigmaSignals(a.signals, Len(a.signals))
    IN  /\ a.total_score = sigma
        /\ a.risk_level = "CRITICAL" <=> sigma >= 8500
        /\ a.risk_level = "HIGH" <=> (7000 <= sigma /\ sigma < 8500)
        /\ a.risk_level = "MEDIUM" <=> (4000 <= sigma /\ sigma < 7000)
        /\ a.risk_level = "LOW" <=> sigma < 4000
        /\ a.risk_level # "LOW" => a.requires_review

\* three signals that add up to exactly 85 points, after less
C15_Witness ==
    /\ Len(assessment.signals) = 3
    /\ assessment.total_score = 8500
    /\ assessment.risk_level = "CRITICAL"
    /\ assessment.requires_review

\* C16 as stated: at the end of assess_order auto_approve is true only if
\* risk_level is LOW and total_score is at most 20, and auto_approve and
\* requires_review are never both true.  It does not hold: the first signal
\* sets auto_approve and no later branch clears it.
C16_AutoApproveOnlyWhenLow ==
    assessment # NoAssessment =>
        /\ assessment.auto_approve =>
             (assessment.risk_level = "LOW" /\ assessment.total_score <= 2000)
        /\ ~(assessment.auto_approve /\ assessment.requires_review)

\* the calls before the k-th for the same email, made less than a day before it
EarlierForEmail(k) ==
    {i \in 1..(k - 1) : /\ assessed[i].email = assessed[k].email
                        /\ assessed[i].at > assessed[k].at - Day}

\* the calls before the k-th from the same IP, made less than an hour before it
EarlierFromIp(k) ==
    {i \in 1..(k - 1) : /\ assessed[i].ip = assessed[k].ip
                        /\ assessed[i].at > assessed[k].at - Hour}

\* C17: the velocity signal of a call counts 60 iff at least 5 earlier calls
\* for its email were made within the preceding 24 hours, and 70 iff an IP is
\* given and at least 3 earlier calls from it were made within the preceding
\* hour (the signal is capped at 100); the call itself is not counted, and
\* the history it leaves holds no entry older than the window.
C17_VelocityCountsEarlierCalls ==
    /\ \A k \in DOMAIN assessed :
         assessed[k].velocity_risk =
            Min(100, (IF Cardinality(EarlierForEmail(k)) >= 5 THEN 60 ELSE 0)
                   + (IF assessed[k].ip # NoIp /\ Cardinality(EarlierFromIp(k)) >= 3
                      THEN 70 ELSE 0))
    /\ assessed # <<>> =>
         LET c == assessed[Len(assessed)]
             today == VELOCITY_HISTORY.email[c.email]
         IN  /\ \A n \in DOMAIN today : today[n] > c.at - Day
             /\ Len(today) = Cardinality(EarlierForEmail(Len(assessed))) + 1
             /\ c.ip # NoIp =>
                  /\ \A n \in DOMAIN VELOCITY_HISTORY.ip[c.ip] :
                        VELOCITY_HISTORY.ip[c.ip][n] > c.at - Hour
                  /\ Len(VELOCITY_HISTORY.ip[c.ip])
                        = Cardinality(EarlierFromIp(Len(assessed))) + 1

\* six calls for one email within the day: the first five are not flagged,
\* the sixth is, and an earlier call has left the hour's window for its IP
C17_Witness ==
    /\ Len(assessed) = 6
    /\ \A k \in 1..5 : assessed[k].email = assessed[6].email /\ assessed[k].velocity_risk = 0
    /\ assessed[6].velocity_risk = 60
    /\ assessed[1].at < assessed[6].at
    /\ assessed[1].ip = assessed[6].ip
    /\ assessed[6].ip # NoIp

(***************************************************************************)
(* OrderManager.update_status (src/bots/order_handler_bot.py).  An order's *)
(* status is a member of the OrderStatus enum; its history holds the       *)
(* members' values.                                                        *)
(***************************************************************************)
\* update_status calls made on one order
MaxUpdates == 2

\* OrderStatus: the value of every member
OrderStatus ==
    [PENDING |-> "pending", FRAUD_REVIEW |-> "fraud_review",
     PAYMENT_PENDING |-> "payment_pending", PAID |-> "paid",
     PROCESSING |-> "processing", AWAITING_SUPPLIER |-> "awaiting_supplier",
     SHIPPED |-> "shipped", IN_TRANSIT |-> "in_transit",
     OUT_FOR_DELIVERY |-> "out_for_delivery", DELIVERED |-> "delivered",
     CANCELLED |-> "cancelled", REFUNDED |-> "refunded",
     DISPUTED |-> "disputed", CHARGEBACK |-> "chargeback"]

\* the notes a caller passes: none, or some text
Notes == {None, "Tracking provided"}

\* update_status with the assignment moved before the append
update_status_assigning_first(o, new_status, notes) ==
    [status |-> new_status,
     status_history |-> Append(o.status_history,
                               [from_status |-> OrderStatus[new_status],
                                to_status |-> OrderStatus[new_status],
                                notes |-> notes]),
     notes |-> IF notes # None THEN Append(o.notes, notes) ELSE o.notes]

\* OrderManager.update_status(order, new_status, notes): the order it returns
update_status(o, new_status, notes) ==
    [status |-> new_status,
     status_history |-> Append(o.status_history,
                               [from_status |-> OrderStatus[o.status],
                                to_status |-> OrderStatus[new_status],
                                notes |-> notes]),
     notes |-> IF notes # None THEN Append(o.notes, notes) ELSE o.notes]

\* an order as create_order returns it
InitOrders ==
    /\ scorer = "ProductScore"
    /\ WEIGHTS = SourceWEIGHTS(scorer)
    /\ kwargs = NoKwargs
    /\ inst = NoInstance
    /\ res = NoResult
    /\ calls = 0
    /\ exported = FALSE
    /\ writes = 0
    /\ last = "init"
    /\ FraudIdle /\ ProcessorIdle /\ ThreadsIdle /\ PricingIdle
    /\ order \in [status : {"PENDING", "FRAUD_REVIEW"}, status_history : {<<>>},
                  notes : {<<>>}]
    /\ updates = <<>>

UpdateStatus(new_status, notes) ==
    /\ Len(updates) < MaxUpdates
    /\ order' = update_status(order, new_status, notes)
    /\ updates' = Append(updates, [before |-> order.status, requested |-> new_status])
    /\ UNCHANGED <<scorerVars, fraudVars, processorVars, threadVars, pricingVars>>

NextOrders ==
    \E new_status \in DOMAIN OrderStatus, notes \in Notes : UpdateStatus(new_status, notes)

SpecOrders == InitOrders /\ [][NextOrders]_vars

\* C18: after n update_status calls status_history has n entries, in call
\* order; each entry goes from the status the order had before the call to
\* the status requested, each entry starts where the previous one ended, and
\* order.status is where the last entry ended.
C18_HistoryFollowsCalls ==
    LET h == order.status_history
    IN  /\ Len(h) = Len(updates)
        /\ \A i \in DOMAIN h :
             /\ h[i].from_status = OrderStatus[updates[i].before]
             /\ h[i].to_status = OrderStatus[updates[i].requested]
             /\ i > 1 => h[i].from_status = h[i - 1].to_status
        /\ h # <<>> => OrderStatus[order.status] = h[Len(h)].to_status

\* two calls, the second to another status than the first
C18_Witness ==
    /\ Len(updates) = 2
    /\ Len(order.status_history) = 2
    /\ order.status_history[1].from_status = "fraud_review"
    /\ order.status_history[1].to_status = "paid"
    /\ order.status_history[2].to_status = "shipped"
    /\ order.status = "SHIPPED"

(***************************************************************************)
(* EliteOrderProcessor.process_pending (src/bots/autonomous_controller.py) *)
(* over the orders loaded from data/orders.json.  What random.random()     *)
(* and random.randint() return is any of the values they can return.       *)
(***************************************************************************)
\* orders in data/orders.json
NumOrders == 3

\* the statuses of the orders in the file: waiting to be processed, being
\* processed, or "confirmed" as order_simulator.py writes them
LoadedStatuses == {"pending", "processing", "confirmed"}

\* f"TRK{random.randint(10000000, 99999999)}"
TrackingNumbers == {"TRK10000000", "TRK99999999"}

\* the loop body with `if` in place of `elif`
process_order_falling_through(o, passes, tracking) ==
    LET o1 == IF o.status = "pending" /\ passes
              THEN [o EXCEPT !.status = "processing", !.processed_at = "now"]
              ELSE o
    IN  IF o1.status = "processing" /\ passes
        THEN [o1 EXCEPT !.status = "shipped", !.tracking = tracking, !.shipped_at = "now"]
        ELSE o1

\* the body of the loop for one order: `passes` says whether the random
\* draw of the branch the order's status selects is below its threshold
process_order(o, passes, tracking) ==
    IF o.status = "pending" /\ passes
    THEN [o EXCEPT !.status = "processing", !.processed_at = "now"]
    ELSE IF o.status = "processing" /\ passes
    THEN [o EXCEPT !.status = "shipped", !.tracking = tracking, !.shipped_at = "now"]
    ELSE o

\* EliteOrderProcessor(): the orders are those of the file
InitProcessor ==
    /\ scorer = "ProductScore"
    /\ WEIGHTS = SourceWEIGHTS(scorer)
    /\ kwargs = NoKwargs
    /\ inst = NoInstance
    /\ res = NoResult
    /\ calls = 0
    /\ exported = FALSE
    /\ writes = 0
    /\ last = "init"
    /\ FraudIdle /\ OrderIdle /\ ThreadsIdle /\ PricingIdle
    /\ orders_file \in [1..NumOrders ->
                          [status : LoadedStatuses, tracking : {None},
                           processed_at : {None}, shipped_at : {None}]]
    /\ orders = orders_file
    /\ results = [none |-> TRUE]
    /\ shipped_here = {}

\* process_pending(): one pass over the orders, then _save()
ProcessPending(passes, tracking) ==
    /\ orders' = [i \in DOMAIN orders |-> process_order(orders[i], passes[i], tracking[i])]
    /\ results' =
         [processing |-> Cardinality({i \in DOMAIN orders :
                            orders[i].status = "pending" /\ orders'[i].status # "pending"}),
          shipped |-> Cardinality({i \in DOMAIN orders :
                            orders[i].status # "shipped" /\ orders'[i].status = "shipped"})]
    /\ shipped_here' = shipped_here \cup
         {i \in DOMAIN orders : orders[i].status # "shipped" /\ orders'[i].status = "shipped"}
    /\ orders_file' = orders'
    /\ UNCHANGED <<scorerVars, fraudVars, orderVars, threadVars, pricingVars>>

NextProcessor ==
    \E passes \in [1..NumOrders -> BOOLEAN], tracking \in [1..NumOrders -> TrackingNumbers] :
        ProcessPending(passes, tracking)

SpecProcessor == InitProcessor /\ [][NextProcessor]_vars

\* how far along an order is
Stage(status) ==
    CASE status = "pending" -> 1
      [] status = "processing" -> 2
      [] status = "shipped" -> 3
      [] OTHER -> 0

\* C19: a process_pending call moves an order by at most one stage, from
\* pending to processing or from processing to shipped, never backwards;
\* it leaves an order in any other status as it is; and an order has a
\* tracking number exactly when a process_pending call has shipped it.
C19_ForwardOneStageAtATime ==
    [][\A i \in DOMAIN orders :
          /\ \/ orders'[i].status = orders[i].status
             \/ orders[i].status = "pending" /\ orders'[i].status = "processing"
             \/ orders[i].status = "processing" /\ orders'[i].status = "shipped"
          /\ Stage(orders'[i].status) >= Stage(orders[i].status)
          /\ orders[i].status \notin {"pending", "processing"} => orders'[i] = orders[i]
          /\ orders'[i].tracking # None <=> i \in shipped_here'
          /\ orders[i].tracking # None <=> i \in shipped_here]_vars

\* one order shipped by a call after an earlier call had put it in
\* processing, one moved to processing only, one left as the file had it
C19_Witness ==
    /\ \E i \in shipped_here :
          /\ orders[i].status = "shipped"
          /\ orders[i].tracking \in TrackingNumbers
          /\ orders[i].processed_at # None
    /\ \E i \in DOMAIN orders : orders[i].status = "processing" /\ orders[i].processed_at # None
    /\ \E i \in DOMAIN orders : orders[i].status = "confirmed"
    /\ results = [processing |-> 0, shipped |-> 1]

\* a velocity history in which n calls for the email and m calls from the IP
\* were recorded at time t
HistoryWith(email, ip, n, m, t) ==
    [email |-> Store(<<>>, email.addr, [i \in 1..n |-> t]),
     ip |-> IF ip # NoIp THEN Store(<<>>, ip, [i \in 1..m |-> t]) ELSE <<>>]

\* what assess_order returns for order o from ip at this moment when n calls
\* for the email and m calls from the IP have just been recorded
Assessed(o, ip, n, m) ==
    assess_order(HistoryWith(o.customer.email, ip, n, m, now), o, ip, now).assessment

\* C20 as stated: every RiskLevel is the final risk_level of assess_order for
\* some order, IP address and velocity history, and some input drives
\* total_score to at least 85.  It does not hold: with every signal at its
\* highest the total is 82.5, so CRITICAL is never returned.
C20_EveryRiskLevelReachable ==
    /\ \A level \in RiskLevel :
         \E o \in AllOrders, ip \in AllIps,
            n \in {0, MAX_ORDERS_PER_DAY_PER_EMAIL}, m \in {0, MAX_ORDERS_PER_HOUR_PER_IP} :
                Assessed(o, ip, n, m).risk_level = level
    /\ \E o \in AllOrders, ip \in AllIps,
          n \in {0, MAX_ORDERS_PER_DAY_PER_EMAIL}, m \in {0, MAX_ORDERS_PER_HOUR_PER_IP} :
              Assessed(o, ip, n, m).total_score >= 8500

(***************************************************************************)
(* OrderManager.create_order: the order is priced, assessed for fraud,     *)
(* given a customer profile and created in its initial status.             *)
(***************************************************************************)
\* create_order calls made
MaxCreate == 4

\* Config.FREE_SHIPPING_THRESHOLD, in dollars
FREE_SHIPPING_THRESHOLD == 50

\* Config.STANDARD_SHIPPING, 4.99 dollars, in cents
STANDARD_SHIPPING == 499

\* Config.MIN_ACCEPTABLE_MARGIN, 0.30, in hundredths
MIN_ACCEPTABLE_MARGIN == 30

RECURSIVE Subtotal(_)
\* sum(item.get('price', 0) * item.get('quantity', 1) for item in cart_items)
Subtotal(cart_items) ==
    IF cart_items = <<>> THEN 0
    ELSE Head(cart_items).price * Head(cart_items).quantity + Subtotal(Tail(cart_items))

\* round(subtotal * 0.08, 2) in cents: 8 % of a whole number of cents is
\* never half a cent away from two cents, so the nearest cent is unique
Tax(subtotal) == (subtotal * 8 + 50) \div 100

\* customer_data.get('country', 'US')
CountryOf(customer_data) ==
    IF "country" \in DOMAIN customer_data THEN customer_data.country ELSE "US"

\* the order_dict that create_order builds and hands to the engines
OrderDict(order_id, customer_data, cart_items, total) ==
    [order_id |-> order_id,
     customer |-> [name |-> customer_data.name,
                   email |-> customer_data.email,
                   address |-> [line1 |-> customer_data.address_line1.given,
                                po_box |-> customer_data.address_line1.po_box,
                                freight |-> customer_data.address_line1.freight,
                                city |-> customer_data.city,
                                state |-> customer_data.state,
                                zip |-> customer_data.zip,
                                country |-> CountryOf(customer_data)]],
     items |-> [i \in DOMAIN cart_items |-> cart_items[i].quantity],
     total |-> total]

\* CustomerAnalyticsEngine.predict_chargeback_risk for the profile that
\* get_or_create_profile returns (no disputes, no returns, no orders), in
\* ten-thousandths and in exact arithmetic; the fraud score is in hundredths
\* of a point and the total in cents
predict_chargeback_risk(total, fraud) ==
    Min(9500, 200 + (fraud.total_score * 3) \div 10
                  + (IF total > 100 * 100 THEN 1000 ELSE 0))

\* the flags of create_order, by their kind
RiskFlags(total, shipping, fraud) ==
    (IF fraud.risk_level # "LOW" THEN {"Fraud risk"} ELSE {})
    \cup (IF predict_chargeback_risk(total, fraud) > 1500 THEN {"Chargeback risk"} ELSE {})
    \cup (IF (IF total > 0
              THEN 100 * (total - shipping) - 35 * total < MIN_ACCEPTABLE_MARGIN * total
              ELSE TRUE)
          THEN {"Low margin"} ELSE {})

\* create_order sending to review every order that requires_review
create_order_reviewing_flagged(VH, CH, order_id, customer_data, cart_items, ip_address, t) ==
    LET subtotal == Subtotal(cart_items)
        shipping == IF subtotal >= FREE_SHIPPING_THRESHOLD * 100 THEN 0
                    ELSE STANDARD_SHIPPING
        tax == Tax(subtotal)
        total == subtotal + shipping + tax
        order_dict == OrderDict(order_id, customer_data, cart_items, total)
        r == assess_order(VH, order_dict, ip_address, t)
        fraud_assessment == r.assessment
        initial_status == IF fraud_assessment.requires_review
                          THEN "FRAUD_REVIEW" ELSE "PENDING"
    IN  [VELOCITY_HISTORY |-> r.VELOCITY_HISTORY,
         CUSTOMER_HISTORY |-> CH \cup {customer_data.email.addr},
         order |-> [order_id |-> order_id, status |-> initial_status,
                    customer |-> order_dict.customer, items |-> cart_items,
                    subtotal |-> subtotal, shipping |-> shipping, tax |-> tax,
                    total |-> total, fraud_assessment |-> fraud_assessment,
                    status_history |-> <<>>, notes |-> <<>>,
                    risk_flags |-> RiskFlags(total, shipping, fraud_assessment)]]

\* OrderManager.create_order(customer_data, cart_items, ip_address) at time
\* t, given the order id that generate_order_id draws: the two class-level
\* histories after the call and the Order returned.  The status is the name
\* of the OrderStatus member.  The fulfillment decision is computed from the
\* order alone and decides nothing else, and is left out of the record.
create_order(VH, CH, order_id, customer_data, cart_items, ip_address, t) ==
    LET subtotal == Subtotal(cart_items)
        shipping == IF subtotal >= FREE_SHIPPING_THRESHOLD * 100 THEN 0
                    ELSE STANDARD_SHIPPING
        tax == Tax(subtotal)
        total == subtotal + shipping + tax
        order_dict == OrderDict(order_id, customer_data, cart_items, total)
        r == assess_order(VH, order_dict, ip_address, t)
        fraud_assessment == r.assessment
        initial_status == IF fraud_assessment.risk_level \in {"HIGH", "CRITICAL"}
                          THEN "FRAUD_REVIEW" ELSE "PENDING"
    IN  [VELOCITY_HISTORY |-> r.VELOCITY_HISTORY,
         CUSTOMER_HISTORY |-> CH \cup {customer_data.email.addr},
         order |-> [order_id |-> order_id, status |-> initial_status,
                    customer |-> order_dict.customer, items |-> cart_items,
                    subtotal |-> subtotal, shipping |-> shipping, tax |-> tax,
                    total |-> total, fraud_assessment |-> fraud_assessment,
                    status_history |-> <<>>, notes |-> <<>>,
                    risk_flags |-> RiskFlags(total, shipping, fraud_assessment)]]

\* a customer with a full address in the default country
CleanCustomer ==
    [name |-> [given |-> TRUE, in_email |-> TRUE],
     email |-> John,
     address_line1 |-> [given |-> TRUE, po_box |-> FALSE, freight |-> FALSE],
     city |-> TRUE, state |-> TRUE, zip |-> TRUE]

\* a customer with a name and a high-risk country, and nothing else
RiskyCustomer ==
    [name |-> [given |-> TRUE, in_email |-> FALSE],
     email |-> NoEmail,
     address_line1 |-> [given |-> FALSE, po_box |-> FALSE, freight |-> FALSE],
     city |-> FALSE, state |-> FALSE, zip |-> FALSE,
     country |-> "NG"]

\* a customer with no email and nothing else wrong
AnonymousCustomer ==
    [name |-> [given |-> TRUE, in_email |-> FALSE],
     email |-> NoEmail,
     address_line1 |-> [given |-> TRUE, po_box |-> FALSE, freight |-> FALSE],
     city |-> TRUE, state |-> TRUE, zip |-> TRUE,
     country |-> "US"]

\* one item of 40 dollars in quantity 4
Line == [price |-> 4000, quantity |-> 4]

\* the create_order calls explored
CreateRequests ==
    { [order_id |-> "SB-1", customer_data |-> CleanCustomer,
       cart_items |-> <<[price |-> 5000, quantity |-> 1]>>, ip |-> PrivateIp],
      [order_id |-> "SB-2", customer_data |-> RiskyCustomer,
       cart_items |-> <<Line, Line, Line, Line>>, ip |-> NoIp],
      [order_id |-> "SB-3", customer_data |-> RiskyCustomer,
       cart_items |-> <<Line, Line, Line, Line>>, ip |-> PublicIp],
      [order_id |-> "SB-4", customer_data |-> AnonymousCustomer,
       cart_items |-> <<[price |-> 1000, quantity |-> 1]>>, ip |-> PrivateIp] }

InitCreate == InitFraud

\* OrderManager.create_order(c.customer_data, c.cart_items, c.ip)
CreateOrder(c) ==
    /\ Len(assessed) < MaxCreate
    /\ LET r == create_order(VELOCITY_HISTORY, CUSTOMER_HISTORY, c.order_id,
                             c.customer_data, c.cart_items, c.ip, now)
       IN  /\ VELOCITY_HISTORY' = r.VELOCITY_HISTORY
           /\ CUSTOMER_HISTORY' = r.CUSTOMER_HISTORY
           /\ order' = r.order
           /\ assessment' = r.order.fraud_assessment
           /\ assessed' = Append(assessed,
                                 Call(r.order, c.ip, now, r.order.fraud_assessment))
    /\ UNCHANGED <<now, updates>>
    /\ UNCHANGED <<scorerVars, processorVars, threadVars, pricingVars>>

NextCreate ==
    \/ \E c \in CreateRequests : CreateOrder(c)
    \/ \E t \in Times : Tick(t)

SpecCreate == InitCreate /\ [][NextCreate]_vars

\* an Order has been created
Created == "status" \in DOMAIN order

\* C21: an order is created in FRAUD_REVIEW exactly when its fraud
\* assessment's risk level is HIGH or CRITICAL and in PENDING otherwise; in
\* particular an order at MEDIUM risk, which requires review, is PENDING
C21_ReviewOnlyHighRisk ==
    Created =>
        /\ order.status \in {"FRAUD_REVIEW", "PENDING"}
        /\ order.status = "FRAUD_REVIEW"
               <=> order.fraud_assessment.risk_level \in {"HIGH", "CRITICAL"}
        /\ (order.fraud_assessment.risk_level = "MEDIUM"
              /\ order.fraud_assessment.requires_review) => order.status = "PENDING"
        /\ order.status_history = <<>>

\* orders have been created; the latest is at HIGH risk and in
\* FRAUD_REVIEW, and an earlier one was at MEDIUM risk
C21_Witness ==
    /\ Created
    /\ order.status = "FRAUD_REVIEW"
    /\ order.fraud_assessment.risk_level = "HIGH"
    /\ \E k \in DOMAIN assessed : assessed[k].risk_level = "MEDIUM"

(***************************************************************************)
(* The signals of an assessment.                                           *)
(***************************************************************************)
\* the names of the signals, in the order the claim gives them
SevenSignals ==
    <<"email_risk", "address_risk", "amount_risk", "velocity_risk",
      "behavioral_risk", "device_risk", "identity_consistency">>

RECURSIVE SigmaWeights(_)
\* the sum of the weights of a sequence of signals, in hundredths
SigmaWeights(signals) ==
    IF signals = <<>> THEN 0
    ELSE Head(signals).weight + SigmaWeights(Tail(signals))

\* the assessment a has the seven signals, in order and in range
SevenInRange(a) ==
    /\ Len(a.signals) = 7
    /\ \A i \in 1..7 :
          /\ a.signals[i].name = SevenSignals[i]
          /\ a.signals[i].score \in 0..100
    /\ SigmaWeights(a.signals) = 100
    /\ a.total_score \in 0..(100 * 100)

\* C22: an assessment returned by assess_order has exactly seven signals,
\* for email, address, amount, velocity, behavior, device and identity in
\* that order, each with a score from 0 to 100, with weights that sum to 1,
\* and so a total score from 0 to 100.  It is stated of every assessment the
\* engine returns in a run and, before the first call, of the assessment it
\* would return for each order of AllOrders with an empty or a full history.
C22_SevenSignalsInRange ==
    /\ assessment # NoAssessment => SevenInRange(assessment)
    /\ (assessed = <<>> /\ now = 0) =>
          \A o \in AllOrders, ip \in AllIps,
             n \in {0, MAX_ORDERS_PER_DAY_PER_EMAIL}, m \in {0, MAX_ORDERS_PER_HOUR_PER_IP} :
                SevenInRange(Assessed(o, ip, n, m))

\* an assessment whose velocity score was cut down to 100: five earlier
\* orders of the email within the day and three from the address within the
\* hour come to 130
C22_Witness ==
    /\ assessment # NoAssessment
    /\ Len(assessment.signals) = 7
    /\ assessment.signals[4].score = 100
    /\ assessment.total_score > 0
    /\ \E k \in DOMAIN assessed :
          /\ k = Len(assessed)
          /\ Cardinality(EarlierForEmail(k)) >= MAX_ORDERS_PER_DAY_PER_EMAIL
          /\ Cardinality(EarlierFromIp(k)) >= MAX_ORDERS_PER_HOUR_PER_IP

(***************************************************************************)
(* AIDecisionEngine.optimize_price.  Prices are in cents and the           *)
(* arithmetic is exact: a quantity of dollars is held as a whole number of *)
(* 1/Scale cents.                                                          *)
(***************************************************************************)
\* Config.PRICE_FLOOR_MULTI, 2.5, in tenths
PRICE_FLOOR_MULTI == 25

\* Config.PRICE_CEILING_MULTI, 4.5, in tenths
PRICE_CEILING_MULTI == 45

\* the denominator under which demand_factor (in 200ths) times comp_factor
\* (in 100ths) times a number of cents is whole
Scale == 200 * 100

\* round(num / den): the nearest integer.  The code rounds a float product,
\* which at an exact half may lie on either side of it, so a half may go to
\* either neighbour
Rounded(num, den) ==
    LET q == num \div den
        r == num % den
    IN  IF 2 * r < den THEN {q}
        ELSE IF 2 * r > den THEN {q + 1}
        ELSE {q, q + 1}

\* "INCREASE", "DECREASE" or "MAINTAIN": the new price against the current one
StrategyOf(optimal, current) ==
    IF optimal * 100 > current * 105 THEN "INCREASE - High demand"
    ELSE IF optimal * 100 < current * 95 THEN "DECREASE - Competition"
    ELSE "MAINTAIN - Optimal"

\* product.get('wholesale_cost', 10)
CostOf(p) == IF "wholesale_cost" \in DOMAIN p THEN p.wholesale_cost ELSE 10 * 100

\* product.get('price', cost * 3)
CurrentOf(p) == IF "price" \in DOMAIN p THEN p.price ELSE CostOf(p) * 3

\* AIDecisionEngine.optimize_price(product, market) for a current price
\* above zero: the pairs of price and strategy it may return
optimize_price(p, m) ==
    LET cost == CostOf(p)
        current == CurrentOf(p)
        min_price == cost * PRICE_FLOOR_MULTI * (Scale \div 10)
        max_price == cost * PRICE_CEILING_MULTI * (Scale \div 10)
        demand == IF "demand" \in DOMAIN m THEN m.demand ELSE 50
        \* demand_factor = 1 + (demand - 50) / 200, in 200ths
        demand_factor == 150 + demand
        comp_price == IF "competitor_avg_price" \in DOMAIN m
                      THEN m.competitor_avg_price ELSE current
        \* current * demand_factor * comp_factor, in 1/Scale cents
        raw == IF comp_price > 0
               THEN IF comp_price * 100 <= current * 115
                    THEN comp_price * demand_factor * 100
                    ELSE current * demand_factor * 115
               ELSE current * demand_factor * 100
        clamped == Max(min_price, Min(max_price, raw))
        \* round(optimal * 2) / 2 - 0.01: half dollars, less a cent
        optimal == {h * 50 - 1 : h \in Rounded(clamped, Scale * 50)}
    IN  {[optimal |-> o, strategy |-> StrategyOf(o, current)] : o \in optimal}

\* the products priced: a wholesale cost and, with or without, a price
Products ==
    [wholesale_cost : {1000, 1010, 1234}]
    \cup [wholesale_cost : {1000, 1010, 1234}, price : {2000, 2999, 3500, 6000}]
    \cup [price : {2999}]

\* the markets: a demand from 0 to 100 and a competitors' price, or neither
Markets ==
    [demand : {0, 40, 50, 85, 100}]
    \cup [demand : {0, 40, 50, 85, 100}, competitor_avg_price : {0, 2500, 3000, 7000}]
    \cup [competitor_avg_price : {3000}]

InitPrice ==
    /\ scorer = "ProductScore"
    /\ WEIGHTS = SourceWEIGHTS(scorer)
    /\ kwargs = NoKwargs
    /\ inst = NoInstance
    /\ res = NoResult
    /\ calls = 0
    /\ exported = FALSE
    /\ writes = 0
    /\ last = "init"
    /\ FraudIdle /\ OrderIdle /\ ProcessorIdle /\ ThreadsIdle
    /\ product \in Products
    /\ market = [none |-> TRUE]
    /\ optimized = [none |-> TRUE]

\* self.ai.optimize_price(product, m)
OptimizePrice(m) ==
    /\ market' = m
    /\ optimized' \in optimize_price(product, m)
    /\ UNCHANGED product
    /\ UNCHANGED <<scorerVars, fraudVars, orderVars, processorVars, threadVars>>

NextPrice == \E m \in Markets : OptimizePrice(m)

SpecPrice == InitPrice /\ [][NextPrice]_vars

\* C23 as stated: the price optimize_price returns lies within the band,
\* cost * 2.5 <= price <= cost * 4.5, whatever the cost, the current price,
\* the demand and the competitors' price.  It does not hold: the price is
\* clamped to the band and then rounded to a half dollar less one cent.
C23_PriceWithinBand ==
    "optimal" \in DOMAIN optimized =>
        /\ CostOf(product) * PRICE_FLOOR_MULTI <= optimized.optimal * 10
        /\ optimized.optimal * 10 <= CostOf(product) * PRICE_CEILING_MULTI

====
